---- MODULE Spec2Model ----
(***************************************************************************)
(* The order-fulfilment state machine of "Funpay AutoSteam/bot_funpay.py". *)
(* One event (NewOrder, NewMessage) is handled to completion before the    *)
(* next one; each handler is one action, written as a composition of       *)
(* operators over a machine record                                         *)
(*     st = [store, heap, fx, creates, pays]                               *)
(* store : USER_STATES, key -> session id                                  *)
(* heap  : the session dicts, session id -> fields                         *)
(* fx    : the calls the handler has made to its collaborators, in order   *)
(* The variable feed holds the events and the provider answers of the run  *)
(* (fixed by Init); last holds what the handler of the last event did.     *)
(* Amounts are in thousandths of a currency unit; time is in seconds.      *)
(* Further sections: the threads of the provider credential, the loop of   *)
(* deactivate_category, and the older bot, "Funpay-AutoSteam".             *)
(***************************************************************************)
EXTENDS Integers, Sequences, FiniteSets, TLC

VARIABLES USER_STATES, heap, now, AUTO_REFUND, AUTO_DEACTIVATE,
          createCalls, payCalls, last, feed,
          STEAM_TOKEN, lock, issued, pc, loc,
          market, job

botVars == <<USER_STATES, heap, now, AUTO_REFUND, AUTO_DEACTIVATE,
             createCalls, payCalls, last, feed>>
authVars == <<STEAM_TOKEN, lock, issued, pc, loc>>
lotVars == <<market, job>>
vars == <<botVars, authVars, lotVars>>

----------------------------------------------------------------------------
(* Bounds of the model *)

\* session objects alive at the same time
MaxSessions == 3
\* clock ticks of one TTL each
MaxTicks == 2
\* tokens the provider issues
MaxFetches == 3
\* listings in the category
MaxLots == 3

----------------------------------------------------------------------------
(* Program constants *)

CATEGORY_ID == 1086
MIN_BALANCE == 5 * 1000
SESSION_TTL == 60 * 60
TickLen == SESSION_TTL

Currencies == {"RUB", "KZT", "UAH", "USD"}
MIN_AMOUNTS == [c \in Currencies |->
                  CASE c = "RUB" -> 15000
                    [] c = "KZT" -> 80000
                    [] c = "UAH" -> 7000
                    [] c = "USD" -> 150]

----------------------------------------------------------------------------
(* Identifiers: a raw id is None, an int or a string of decimal digits;    *)
(* n is the number it denotes.                                             *)

None == [kind |-> "none", n |-> 0]
IntId(n) == [kind |-> "int", n |-> n]
StrId(n) == [kind |-> "str", n |-> n]

\* bool(v) of a raw id: None and the int 0 are falsy
Truthy(v) == v.kind # "none" /\ ~(v.kind = "int" /\ v.n = 0)

\* str(int(v)): the canonical decimal string of the id
norm_id(v) == IF v = None THEN None ELSE StrId(v.n)

\* the decimal digits of a are a prefix of the decimal digits of b
RECURSIVE DecPrefix(_, _)
DecPrefix(a, b) == IF a = b THEN TRUE
                   ELSE IF b < 10 THEN FALSE
                   ELSE DecPrefix(a, b \div 10)

----------------------------------------------------------------------------
(* Store keys: "chat:<c>", "user:<b>", "user:<b>:order:<o>" *)

ChatKey(c) == [tag |-> "chat", id |-> c.n, order |-> 0]
UserKey(b) == [tag |-> "user", id |-> b.n, order |-> 0]
UserOrderKey(b, o) == [tag |-> "user_order", id |-> b.n, order |-> o.n]

state_keys(chat_id, buyer_id, order_id) ==
  LET c == norm_id(chat_id)
      b == norm_id(buyer_id)
      o == norm_id(order_id)
  IN  (IF c # None THEN <<ChatKey(c)>> ELSE <<>>)
      \o (IF b # None THEN <<UserKey(b)>> ELSE <<>>)
      \o (IF b # None /\ o # None THEN <<UserOrderKey(b, o)>> ELSE <<>>)

\* k.startswith("user:<b>")
StartsWithUser(k, b) == k.tag \in {"user", "user_order"} /\ DecPrefix(b.n, k.id)

SeqRange(s) == {s[i] : i \in 1..Len(s)}

\* the session ids the store refers to
Sids(store) == {store[k] : k \in DOMAIN store}

----------------------------------------------------------------------------
(* The machine record the handlers work on *)

Machine(store, hp, cc, pym) ==
  [store |-> store, heap |-> hp, fx |-> <<>>, creates |-> cc, pays |-> pym,
   sid |-> 0, act |-> "-"]

\* the answer of a collaborator: status Raised when the call raised instead
\* of returning; error: the body carries an "error" entry; value: the
\* result, usd_price or balance of the body, NoValue when it has none
NoValue == 0 - 1
Raised == 0 - 3
Reply(status, error, value) == [status |-> status, error |-> error, value |-> value]
Done == Reply(200, FALSE, NoValue)
NoReply == Reply(0 - 2, FALSE, NoValue)
RaisedReply == Reply(Raised, FALSE, NoValue)

\* a call to a collaborator, recorded in call order with its answer
\* (paid: the paid flag of the handler's session at the time of the call)
Fx(st, op, arg, reply) ==
  [st EXCEPT !.fx = Append(@, [op |-> op, arg |-> arg, reply |-> reply,
                               paid |-> IF st.sid \in DOMAIN st.heap
                                        THEN st.heap[st.sid].paid ELSE FALSE])]

Branch(st, act) == [st EXCEPT !.act = act]

\* account.send_message(chat_id, text)
send_message(st, chat_id, text) == Fx(st, "send_message", text, Done)

\* calls are counted 0, 1, "more than one"
BumpCount(f, x) == [f EXCEPT ![x] = IF @ = 0 THEN 1 ELSE 2]

----------------------------------------------------------------------------
(* SessionStore: _put_state, _pop_state, _find_state_for_message *)

put_state_keeps_composite(st, sid) ==
  LET s    == st.heap[sid]
      keys == state_keys(s.chat_id, s.buyer_id, s.order_id)
      ks   == {k \in SeqRange(keys) : k.tag # "user_order" \/ k \notin DOMAIN st.store}
  IN  [st EXCEPT !.heap[sid].keys = keys,
                 !.store = [k \in (DOMAIN st.store) \cup ks |->
                              IF k \in ks THEN sid ELSE st.store[k]]]

put_state_no_composite(st, sid) ==
  LET s    == st.heap[sid]
      keys == state_keys(s.chat_id, s.buyer_id, s.order_id)
      ks   == {k \in SeqRange(keys) : k.tag # "user_order"}
  IN  [st EXCEPT !.heap[sid].keys = keys,
                 !.store = [k \in (DOMAIN st.store) \cup ks |->
                              IF k \in ks THEN sid ELSE st.store[k]]]

put_state(st, sid) ==
  LET s    == st.heap[sid]
      keys == state_keys(s.chat_id, s.buyer_id, s.order_id)
      ks   == SeqRange(keys)
  IN  [st EXCEPT !.heap[sid].keys = keys,
                 !.store = [k \in (DOMAIN st.store) \cup ks |->
                              IF k \in ks THEN sid ELSE st.store[k]]]

pop_state_keeps_composite(st, sid) ==
  LET ks == {k \in SeqRange(st.heap[sid].keys) : k.tag # "user_order"}
  IN  Fx([st EXCEPT !.store = [k \in (DOMAIN st.store) \ ks |-> st.store[k]]],
         "pop_state", "-", Done)

pop_state_chat_only(st, sid) ==
  LET ks == {k \in SeqRange(st.heap[sid].keys) : k.tag = "chat"}
  IN  Fx([st EXCEPT !.store = [k \in (DOMAIN st.store) \ ks |-> st.store[k]]],
         "pop_state", "-", Done)

\* _pop_state(state): every key of state["_keys"] leaves the store
pop_state(st, sid) ==
  LET ks == SeqRange(st.heap[sid].keys)
  IN  Fx([st EXCEPT !.store = [k \in (DOMAIN st.store) \ ks |-> st.store[k]]],
         "pop_state", "-", Done)

\* the first key of keys that the store holds, as a session id; 0 if none
RECURSIVE FirstHit(_, _)
FirstHit(store, keys) ==
  IF keys = <<>> THEN 0
  ELSE IF Head(keys) \in DOMAIN store THEN store[Head(keys)]
  ELSE FirstHit(store, Tail(keys))

\* 0 stands for "return None"
find_state_for_message(store, msg) ==
  LET hit == FirstHit(store, state_keys(msg.chat_id, msg.author_id, msg.order_id))
      b   == norm_id(msg.author_id)
      \* one list element per matching key, not per session
      candidates == {k \in DOMAIN store : StartsWithUser(k, b)}
  IN  IF hit # 0 THEN hit
      ELSE IF b # None /\ Cardinality(candidates) = 1
           THEN store[CHOOSE k \in candidates : TRUE]
           ELSE 0

----------------------------------------------------------------------------
(* Orders and the collaborators of order intake *)

NoAmount == 0 - 1

\* the buyer and the chat of a marketplace order (main reads the order
\* from the marketplace by its id, line 844)
BuyerOf(id) == IntId(1)
ChatOf(id) == IntId(7)

\* desc: the lower-cased description as whitespace-separated tokens;
\* amount: what get_order_amount finds, NoAmount when it finds nothing
Order(id, sub, desc, amount) ==
  [id |-> IntId(id), chat_id |-> ChatOf(id), buyer_id |-> BuyerOf(id),
   subcategory |-> sub, desc |-> desc, amount |-> amount]

RubOrder == Order(1, CATEGORY_ID, <<"steam_wallet:", "rub">>, MIN_AMOUNTS["RUB"])
UsdOrder == Order(2, CATEGORY_ID, <<"steam_wallet:", "usd">>, MIN_AMOUNTS["USD"])
BadOrders ==
  { Order(3, CATEGORY_ID, <<"topup">>, 20000),
    Order(4, CATEGORY_ID, <<"steam_wallet:">>, 20000),
    Order(5, CATEGORY_ID, <<"steam_wallet:", "eur">>, 20000),
    Order(6, CATEGORY_ID, <<"steam_wallet:", "rub">>, NoAmount),
    Order(7, CATEGORY_ID, <<"steam_wallet:", "rub">>, MIN_AMOUNTS["RUB"] - 1),
    Order(8, CATEGORY_ID, <<"steam_wallet:", "usd">>, MIN_AMOUNTS["USD"] - 1),
    Order(9, 0, <<"steam_wallet:", "rub">>, 20000) }

OrderIds == {o.id.n : o \in {RubOrder, UsdOrder} \cup BadOrders}

Upper(tok) == CASE tok = "rub" -> "RUB"
                [] tok = "usd" -> "USD"
                [] tok = "kzt" -> "KZT"
                [] tok = "uah" -> "UAH"
                [] OTHER -> "EUR"

HasMarker(desc) == \E i \in 1..Len(desc) : desc[i] = "steam_wallet:"

\* desc_text.split("steam_wallet:")[1].split()[0].strip().upper(), "None" when
\* nothing follows the marker
ParseCurrency(desc) ==
  LET i == CHOOSE i \in 1..Len(desc) :
             desc[i] = "steam_wallet:" /\ \A j \in 1..(i-1) : desc[j] # "steam_wallet:"
  IN  IF i < Len(desc) THEN Upper(desc[i+1]) ELSE "None"

\* what the provider does during one order intake
\*   token : POST /token      rates : POST /rates
\*   refund : account.refund of the marketplace
RatesReplies == { Reply(200, FALSE, 256), Reply(200, FALSE, NoValue),
                  Reply(500, FALSE, NoValue), RaisedReply }
OrderEnvs(f) == [token : f.tokens, rates : f.rates \cup {NoReply},
                 refund : f.refunds \cup {NoReply}]

\* _refresh_token
refresh_token(st, reply) == Fx(st, "get_api_token", "-", reply)

\* convert_to_usd: the machine after the call (if one is made) and the
\* result, NoValue for None
convert_to_usd(st, currency, amount, reply) ==
  LET usd == IF currency = "USD" THEN amount
             ELSE IF reply.status = Raised THEN NoValue
             ELSE IF reply.status # 200 THEN NoValue
             ELSE reply.value
      st1 == IF currency = "USD" THEN st ELSE Fx(st, "rates", currency, reply)
  IN  [st  |-> Fx(st1, "convert_to_usd", currency, Reply(200, FALSE, usd)),
       usd |-> usd]

nice_refund_retries(st, chat_id, order_id, user_text, reply) ==
  LET st1 == Fx(st, "nice_refund", user_text, Done)
      st2 == IF Truthy(chat_id)
             THEN send_message(st1, chat_id,
                               IF AUTO_REFUND THEN "refund_auto" ELSE "refund_manual")
             ELSE st1
      st3 == IF Truthy(order_id) /\ AUTO_REFUND THEN Fx(st2, "refund", "-", reply) ELSE st2
  IN  IF Truthy(order_id) /\ AUTO_REFUND /\ reply.status = Raised
      THEN Fx(st3, "refund", "-", reply) ELSE st3

\* _nice_refund: the message, then the refund when AUTO_REFUND; an exception
\* of the refund is logged
nice_refund(st, chat_id, order_id, user_text, reply) ==
  LET st1 == Fx(st, "nice_refund", user_text, Done)
      st2 == IF Truthy(chat_id)
             THEN send_message(st1, chat_id,
                               IF AUTO_REFUND THEN "refund_auto" ELSE "refund_manual")
             ELSE st1
  IN  IF Truthy(order_id) /\ AUTO_REFUND THEN Fx(st2, "refund", "-", reply) ELSE st2

NewState(order, currency, usd_amount) ==
  [step |-> "waiting_login", created_at |-> now, buyer_id |-> order.buyer_id,
   order_id |-> order.id, chat_id |-> order.chat_id, amount |-> order.amount,
   currency |-> currency, usd_amount |-> usd_amount, paid |-> FALSE,
   login |-> "", keys |-> <<>>]

\* the session id of the dict that handle_new_order builds: the smallest
\* one that no live dict has
FreshSid(st) == CHOOSE s \in 1..MaxSessions :
                  s \notin Sids(st.store) /\ \A t \in 1..(s-1) : t \in Sids(st.store)

\* lines 596-615: build the state, index it, prompt for the login
register_order(st, order, currency, usd_amount) ==
  LET sid == FreshSid(st)
      st1 == [st EXCEPT !.heap = [x \in (DOMAIN st.heap) \cup {sid} |->
                                    IF x = sid THEN NewState(order, currency, usd_amount)
                                    ELSE st.heap[x]],
                        !.creates[sid] = 0,
                        !.sid = sid]
  IN  Branch(send_message(put_state(st1, sid), order.chat_id, "login_prompt"), "registered")

\* lines 549-594: the checks of the order, each failure ends in _nice_refund
validate_order(st, order, env) ==
  IF ~HasMarker(order.desc)
  THEN Branch(nice_refund(st, order.chat_id, order.id, "no_currency", env.refund), "no_currency")
  ELSE LET currency == ParseCurrency(order.desc) IN
  IF currency \notin DOMAIN MIN_AMOUNTS
  THEN Branch(nice_refund(st, order.chat_id, order.id, "bad_currency", env.refund),
              "bad_currency")
  ELSE IF order.amount = NoAmount
  THEN Branch(nice_refund(st, order.chat_id, order.id, "no_amount", env.refund), "no_amount")
  ELSE IF order.amount < MIN_AMOUNTS[currency]
  THEN Branch(nice_refund(st, order.chat_id, order.id, "below_minimum", env.refund),
              "below_minimum")
  ELSE LET c == convert_to_usd(st, currency, order.amount, env.rates) IN
  IF c.usd = NoValue
  THEN Branch(nice_refund(c.st, order.chat_id, order.id, "no_conversion", env.refund),
              "no_conversion")
  ELSE register_order(c.st, order, currency, c.usd)

handle_new_order_any_category(st, order, env) ==
  LET st1 == refresh_token(st, env.token) IN
  IF env.token.status = Raised THEN Branch(st1, "refresh_failed")
  ELSE validate_order(st1, order, env)

\* handle_new_order; an exception of _refresh_token ends the handler (the
\* except clause logs it, line 619 then raises on the unbound chat_id)
handle_new_order(st, order, env) ==
  LET st1 == refresh_token(st, env.token) IN
  IF env.token.status = Raised THEN Branch(st1, "refresh_failed")
  ELSE IF order.subcategory # CATEGORY_ID THEN Branch(st1, "ignored")
  ELSE validate_order(st1, order, env)

\* the provider answers that the intake of the order can meet in this state:
\* an answer of POST /rates only where the intake asks for one
\* and of the refund only where the intake makes one
OrderEnvsFor(st, order) ==
  {env \in OrderEnvs(feed) :
     LET fx == handle_new_order(st, order, env).fx
     IN  /\ (env.rates # NoReply) <=> (\E i \in 1..Len(fx) : fx[i].op = "rates")
         /\ (env.refund # NoReply) <=> (\E i \in 1..Len(fx) : fx[i].op = "refund")}

----------------------------------------------------------------------------
(* Messages and the collaborators of the conversation *)

Msg(chat, author, order, text) ==
  [chat_id |-> chat, author_id |-> author, order_id |-> order, text |-> text]

\* the buyer writes in the chat of the order or in another one, with the id
\* as an int or as a string; somebody else writes in the chat of the order
MessagesOne ==
  { Msg(IntId(7), IntId(1), None, t) : t \in {"+", "gaben", ""} }
  \cup { Msg(IntId(8), IntId(1), None, "+"),
         Msg(IntId(7), StrId(1), None, "+"),
         Msg(IntId(7), IntId(9), None, "+") }
MessagesTwo ==
  { Msg(IntId(7), IntId(1), None, t) : t \in {"+", "gaben"} }
  \cup { Msg(IntId(8), IntId(1), IntId(1), "+") }

\* what the provider does during one message
\*   check   : POST /check          create  : POST /create_order
\*   pay     : POST /pay_order      balance : POST /check_balance
CheckReplies == {Reply(200, FALSE, 1), Reply(200, FALSE, 0), RaisedReply}
OrderReplies == {Reply(200, FALSE, NoValue), Reply(200, TRUE, NoValue),
                 Reply(500, FALSE, NoValue), RaisedReply}
BalanceReplies == {RaisedReply, Reply(200, FALSE, MIN_BALANCE - 1),
                   Reply(200, FALSE, MIN_BALANCE)}

\*   refund  : account.refund of the marketplace
\*   uuid    : what uuid.uuid4() gives to create_order
Uuids == {"u1", "u2"}
NoEnv == [check |-> NoReply, create |-> NoReply, pay |-> NoReply, balance |-> NoReply,
          refund |-> NoReply, uuid |-> "-"]
\* f: the feed, with the answers the provider can give in this run
CheckEnvs(f) == {[NoEnv EXCEPT !.check = c] : c \in f.check}
PayAnswers(f) ==
  {[NoEnv EXCEPT !.create = c] : c \in {r \in f.create : r.status = Raised}}
  \cup {[NoEnv EXCEPT !.create = c, !.balance = b] :
          c \in {r \in f.create : r.status # Raised /\ (r.status # 200 \/ r.error)},
          b \in f.balance}
  \cup {[NoEnv EXCEPT !.create = c, !.pay = p] :
          c \in {r \in f.create : r.status = 200 /\ ~r.error},
          p \in {r \in f.pay : r.status \in {200, Raised}}}
  \cup {[NoEnv EXCEPT !.create = c, !.pay = p, !.balance = b] :
          c \in {r \in f.create : r.status = 200 /\ ~r.error},
          p \in {r \in f.pay : r.status \notin {200, Raised}},
          b \in f.balance}

\* the refund is called where the balance is queried, when AUTO_REFUND
PayEnvs(f) ==
  UNION {{[e EXCEPT !.uuid = u, !.refund = r] :
            u \in Uuids,
            r \in IF e.balance # NoReply /\ AUTO_REFUND THEN f.refunds ELSE {NoReply}} :
         e \in PayAnswers(f)}

check_login_accepts_on_error(st, login, reply) ==
  IF login = "" THEN [st |-> st, ok |-> FALSE]
  ELSE [st |-> Fx(st, "check_login", login, reply),
        ok |-> IF reply.status = Raised THEN TRUE ELSE reply.value = 1]

\* check_login: the machine after the call (if one is made) and the result;
\* an exception of the call counts as "not found"
check_login(st, login, reply) ==
  IF login = "" THEN [st |-> st, ok |-> FALSE]
  ELSE [st |-> Fx(st, "check_login", login, reply),
        ok |-> IF reply.status = Raised THEN FALSE ELSE reply.value = 1]

check_balance_failure_is_enough(reply) ==
  IF reply.status = Raised \/ reply.status # 200 THEN MIN_BALANCE ELSE reply.value

\* check_balance: an exception of the call, or of raise_for_status, counts
\* as a balance of zero
check_balance(reply) ==
  IF reply.status = Raised \/ reply.status # 200 THEN 0 ELSE reply.value

----------------------------------------------------------------------------
(* handle_new_message *)

mark_paying_skipped(st, sid) == st

mark_paying_paid_only(st, sid) == [st EXCEPT !.heap[sid].paid = TRUE]

mark_paying_step_only(st, sid) == [st EXCEPT !.heap[sid].step = "paying"]

\* lines 703-704
mark_paying(st, sid) ==
  [st EXCEPT !.heap[sid].paid = TRUE, !.heap[sid].step = "paying"]

\* round(float(usd_amount), 2), for amounts that are not half-way between
\* two hundredths
round2(v) == ((v + 5) \div 10) * 10

create_order_sends_amount(st, sid, reply, uuid) ==
  Fx(Fx([st EXCEPT !.creates = BumpCount(@, sid)], "uuid4", uuid, Done),
     "create_order",
     [login |-> st.heap[sid].login, quantity |-> round2(st.heap[sid].amount)],
     reply)

\* create_order(login, usd_amount): custom_id = str(uuid.uuid4()), then the
\* request; the call is counted for the session
create_order(st, sid, reply, uuid) ==
  Fx(Fx([st EXCEPT !.creates = BumpCount(@, sid)], "uuid4", uuid, Done),
     "create_order",
     [login |-> st.heap[sid].login, quantity |-> round2(st.heap[sid].usd_amount)],
     reply)

custom_id_of_another_call(st) == "u0"

\* r, custom_id = create_order(...): the custom_id the call made
custom_id_of(st) ==
  LET made == {i \in 1..Len(st.fx) : st.fx[i].op = "uuid4"}
  IN  st.fx[CHOOSE i \in made : \A j \in made : j <= i].arg

\* pay_order(custom_id): the call is counted for the marketplace order (in
\* the runs that count them)
pay_order(st, sid, custom_id, reply) ==
  Fx([st EXCEPT !.pays = IF feed.audit THEN BumpCount(@, st.heap[sid].order_id.n) ELSE @],
     "pay_order", custom_id, reply)

payment_failed_keeps_session(st, sid, chat_id, env, what) ==
  LET st1 == send_message(st, chat_id, what)
      st2 == Fx(st1, "check_balance", "-", env.balance)
      st3 == IF check_balance(env.balance) < MIN_BALANCE /\ AUTO_DEACTIVATE
             THEN Fx(st2, "deactivate_category", "-", Done) ELSE st2
  IN  IF AUTO_REFUND THEN Fx(st3, "refund", "-", env.refund)
      ELSE send_message(st3, chat_id, "refund_manual")

payment_failed_refunds_first(st, sid, chat_id, env, what) ==
  LET st1 == send_message(st, chat_id, what)
      st2 == IF AUTO_REFUND THEN Fx(st1, "refund", "-", env.refund)
             ELSE send_message(st1, chat_id, "refund_manual")
      st3 == Fx(st2, "check_balance", "-", env.balance)
      st4 == IF check_balance(env.balance) < MIN_BALANCE /\ AUTO_DEACTIVATE
             THEN Fx(st3, "deactivate_category", "-", Done) ELSE st3
  IN  pop_state(st4, sid)

payment_failed_retries_refund(st, sid, chat_id, env, what) ==
  LET st1 == send_message(st, chat_id, what)
      st2 == Fx(st1, "check_balance", "-", env.balance)
      st3 == IF check_balance(env.balance) < MIN_BALANCE /\ AUTO_DEACTIVATE
             THEN Fx(st2, "deactivate_category", "-", Done) ELSE st2
      st4 == IF AUTO_REFUND THEN Fx(st3, "refund", "-", env.refund)
             ELSE send_message(st3, chat_id, "refund_manual")
      st5 == IF AUTO_REFUND /\ env.refund.status = Raised
             THEN Fx(st4, "refund", "-", env.refund) ELSE st4
  IN  pop_state(st5, sid)

\* lines 714-735 and 759-780: the message, the balance check with the
\* deactivation, the refund (an exception of it is logged), the removal of
\* the session
payment_failed(st, sid, chat_id, env, what) ==
  LET st1 == send_message(st, chat_id, what)
      st2 == Fx(st1, "check_balance", "-", env.balance)
      st3 == IF check_balance(env.balance) < MIN_BALANCE /\ AUTO_DEACTIVATE
             THEN Fx(st2, "deactivate_category", "-", Done) ELSE st2
      st4 == IF AUTO_REFUND THEN Fx(st3, "refund", "-", env.refund)
             ELSE send_message(st3, chat_id, "refund_manual")
  IN  pop_state(st4, sid)

payment_done_keeps_session(st, sid, chat_id) ==
  LET st1 == send_message(st, chat_id, "done")
  IN  [st1 EXCEPT !.heap[sid].step = "finished"]

\* lines 740-758
payment_done(st, sid, chat_id) ==
  LET st1 == send_message(st, chat_id, "done")
  IN  pop_state([st1 EXCEPT !.heap[sid].step = "finished"], sid)

\* lines 699-780: the buyer wrote "+"; an exception of create_order or
\* pay_order leaves the handler at the call
confirm_plus(st, sid, chat_id, env) ==
  IF st.heap[sid].paid
  THEN Branch(send_message(st, chat_id, "already_processing"), "already_processing")
  ELSE LET st1 == create_order(mark_paying(st, sid), sid, env.create, env.uuid) IN
  IF env.create.status = Raised THEN Branch(st1, "create_raised")
  ELSE IF env.create.status # 200 \/ env.create.error
  THEN Branch(payment_failed(st1, sid, chat_id, env, "create_failed"), "create_failed")
  ELSE LET st2 == pay_order(st1, sid, custom_id_of(st1), env.pay) IN
  IF env.pay.status = Raised THEN Branch(st2, "pay_raised")
  ELSE IF env.pay.status = 200
  THEN Branch(payment_done(st2, sid, chat_id), "paid")
  ELSE Branch(payment_failed(st2, sid, chat_id, env, "pay_failed"), "pay_failed")

waiting_login_stores_rejected(st, sid, chat_id, text, env) ==
  LET c == check_login(st, text, env.check) IN
  IF ~c.ok
  THEN Branch(send_message([c.st EXCEPT !.heap[sid].login = text], chat_id,
                           "login_not_found"), "login_rejected")
  ELSE Branch(send_message([c.st EXCEPT !.heap[sid].login = text,
                                        !.heap[sid].step = "confirm_login"],
                           chat_id, "login_found"), "login_accepted")

\* lines 674-696
waiting_login(st, sid, chat_id, text, env) ==
  LET c == check_login(st, text, env.check) IN
  IF ~c.ok
  THEN Branch(send_message(c.st, chat_id, "login_not_found"), "login_rejected")
  ELSE Branch(send_message([c.st EXCEPT !.heap[sid].login = text,
                                        !.heap[sid].step = "confirm_login"],
                           chat_id, "login_found"), "login_accepted")

replace_login_forgets_rejected(st, sid, chat_id, text, env) ==
  IF st.heap[sid].paid
  THEN Branch(send_message(st, chat_id, "too_late"), "too_late")
  ELSE LET c == check_login(st, text, env.check) IN
  IF ~c.ok
  THEN Branch(send_message([c.st EXCEPT !.heap[sid].login = ""],
                           chat_id, "new_login_not_found"), "new_login_rejected")
  ELSE Branch(send_message([c.st EXCEPT !.heap[sid].login = text],
                           chat_id, "new_login_found"), "new_login_accepted")

replace_login_steps_back(st, sid, chat_id, text, env) ==
  IF st.heap[sid].paid
  THEN Branch(send_message(st, chat_id, "too_late"), "too_late")
  ELSE LET c == check_login(st, text, env.check) IN
  IF ~c.ok
  THEN Branch(send_message([c.st EXCEPT !.heap[sid].step = "waiting_login"],
                           chat_id, "new_login_not_found"), "new_login_rejected")
  ELSE Branch(send_message([c.st EXCEPT !.heap[sid].login = text],
                           chat_id, "new_login_found"), "new_login_accepted")

\* lines 782-802
replace_login(st, sid, chat_id, text, env) ==
  IF st.heap[sid].paid
  THEN Branch(send_message(st, chat_id, "too_late"), "too_late")
  ELSE LET c == check_login(st, text, env.check) IN
  IF ~c.ok
  THEN Branch(send_message(c.st, chat_id, "new_login_not_found"), "new_login_rejected")
  ELSE Branch(send_message([c.st EXCEPT !.heap[sid].login = text],
                           chat_id, "new_login_found"), "new_login_accepted")

\* lines 674-802: the step of the session decides
handle_step(st, sid, chat_id, text, env) ==
  LET step == st.heap[sid].step IN
  IF step = "waiting_login" THEN waiting_login(st, sid, chat_id, text, env)
  ELSE IF step = "confirm_login"
  THEN IF text = "+" THEN confirm_plus(st, sid, chat_id, env)
       ELSE replace_login(st, sid, chat_id, text, env)
  ELSE Branch(st, "no_step")

foreign_author_never(m, state) == FALSE

\* line 659: the author is not the buyer of the session (ids compared as
\* they come)
foreign_author(m, state) ==
  Truthy(m.author_id) /\ Truthy(state.buyer_id) /\ m.author_id # state.buyer_id

\* lines 621-672: the session of the message and the guards; go: the handler
\* went on to the step of the session.  (The lookup of line 648 by the bare
\* chat id finds nothing: every key of the store carries a prefix.)
resolve_message(st, m) ==
  IF m.text = "" THEN [go |-> FALSE, st |-> Branch(st, "no_text"), chat_id |-> None]
  ELSE LET sid == find_state_for_message(st.store, m) IN
  IF sid = 0 THEN [go |-> FALSE, st |-> Branch(st, "no_session"), chat_id |-> None]
  ELSE LET st1     == [st EXCEPT !.sid = sid]
           state   == st.heap[sid]
           chat_id == IF Truthy(m.chat_id) THEN m.chat_id ELSE state.chat_id
       IN
  IF foreign_author(m, state)
  THEN [go |-> FALSE, st |-> Branch(st1, "foreign_author"), chat_id |-> chat_id]
  ELSE IF now - state.created_at > SESSION_TTL
  THEN [go |-> FALSE, st |-> Branch(pop_state(st1, sid), "expired"), chat_id |-> chat_id]
  ELSE IF state.step \in {"paying", "finished"}
  THEN [go |-> FALSE, st |-> Branch(st1, "duplicate"), chat_id |-> chat_id]
  ELSE [go |-> TRUE, st |-> st1, chat_id |-> chat_id]

handle_new_message(st, m, env) ==
  LET r == resolve_message(st, m)
  IN  IF r.go THEN handle_step(r.st, r.st.sid, r.chat_id, m.text, env) ELSE r.st

\* the provider answers that the handling of m can meet in this state
MessageEnvs(st, m) ==
  LET r == resolve_message(st, m) IN
  IF ~r.go THEN {NoEnv}
  ELSE LET state == st.heap[r.st.sid] IN
       IF state.step = "waiting_login" THEN CheckEnvs(feed)
       ELSE IF state.step = "confirm_login" /\ ~state.paid
       THEN IF m.text = "+" THEN PayEnvs(feed) ELSE CheckEnvs(feed)
       ELSE {NoEnv}

----------------------------------------------------------------------------
(* The provider credential: STEAM_TOKEN, its lock, and the threads that    *)
(* fetch it.  A token is the number of the fetch that produced it; 0 is    *)
(* None.  Each thread is at a place (pc) of _request_with_refresh,         *)
(* _ensure_token, _refresh_token or the refresher loop; loc holds its      *)
(* locals.                                                                 *)

Threads == {"event", "refresher"}
NoThread == "-"

\* the answers of the provider to a request, Raised: requests raised
SendReplies == {200, 401, 403, 500, Raised}
\* the bodies of the requests (the custom_id of create_order / pay_order)
Bodies == {1, 2}

\* op: what the thread is doing ("request", "order_refresh", "loop", "-");
\* tok: the fetched token not yet stored; sends: the HTTP requests made for
\* the call, each with its body, the token of its header and its answer;
\* refreshes: the _refresh_token calls completed between the sends;
\* result: what the call gave back (NoValue: nothing yet)
NoLocals ==
  [op |-> "-", tok |-> 0, body |-> 0, retry |-> TRUE, sends |-> <<>>,
   refreshes |-> 0, result |-> NoValue]

AuthInit ==
  /\ STEAM_TOKEN = 0
  /\ lock = NoThread
  /\ issued = 0
  /\ pc = [t \in Threads |-> IF t = "event" THEN "idle" ELSE "sleep"]
  /\ loc = [t \in Threads |-> NoLocals]

acquire_unlocked(lk, t) == TRUE

\* with _STEAM_TOKEN_LOCK: the thread goes on when nobody holds the lock
acquire(lk, t) == lk = NoThread

after_response_retries_again(n, status, retry) ==
  IF status \in {401, 403} /\ retry THEN "acquire" ELSE "idle"

\* lines 224-229: after the n-th answer, refresh and send again, or return
after_response(n, status, retry) ==
  IF n = 1 /\ status \in {401, 403} /\ retry THEN "acquire" ELSE "idle"

\* the event thread calls _request_with_refresh(method, path, json=body)
StartRequest(body) ==
  /\ pc["event"] = "idle"
  /\ pc' = [pc EXCEPT !["event"] = "ensure_check"]
  /\ loc' = [loc EXCEPT !["event"] = [NoLocals EXCEPT !.op = "request", !.body = body]]
  /\ UNCHANGED <<STEAM_TOKEN, lock, issued, botVars, lotVars>>

\* the event thread calls _refresh_token() for a new order (line 532)
StartOrderRefresh ==
  /\ pc["event"] = "idle"
  /\ pc' = [pc EXCEPT !["event"] = "acquire"]
  /\ loc' = [loc EXCEPT !["event"] = [NoLocals EXCEPT !.op = "order_refresh"]]
  /\ UNCHANGED <<STEAM_TOKEN, lock, issued, botVars, lotVars>>

\* the refresher loop wakes up and calls _refresh_token()
RefresherWakes ==
  /\ pc["refresher"] = "sleep"
  /\ pc' = [pc EXCEPT !["refresher"] = "acquire"]
  /\ loc' = [loc EXCEPT !["refresher"] = [NoLocals EXCEPT !.op = "loop"]]
  /\ UNCHANGED <<STEAM_TOKEN, lock, issued, botVars, lotVars>>

\* _ensure_token, lines 203-204: the unlocked test
EnsureCheck(t) ==
  /\ pc[t] = "ensure_check"
  /\ pc' = [pc EXCEPT ![t] = IF STEAM_TOKEN # 0 THEN "send" ELSE "ensure_acquire"]
  /\ UNCHANGED <<STEAM_TOKEN, lock, issued, loc, botVars, lotVars>>

\* entering the with block of _ensure_token (line 205) or _refresh_token
\* (line 210)
Acquire(t) ==
  /\ pc[t] \in {"acquire", "ensure_acquire"}
  /\ acquire(lock, t)
  /\ lock' = t
  /\ pc' = [pc EXCEPT ![t] = IF pc[t] = "acquire" THEN "fetch" ELSE "ensure_recheck"]
  /\ UNCHANGED <<STEAM_TOKEN, issued, loc, botVars, lotVars>>

\* _ensure_token, line 206: the test under the lock
EnsureRecheck(t) ==
  /\ pc[t] = "ensure_recheck"
  /\ pc' = [pc EXCEPT ![t] = IF STEAM_TOKEN = 0 THEN "fetch" ELSE "release"]
  /\ UNCHANGED <<STEAM_TOKEN, lock, issued, loc, botVars, lotVars>>

\* get_api_token() answers with a new token
FetchToken(t) ==
  /\ pc[t] = "fetch"
  /\ issued < MaxFetches
  /\ issued' = issued + 1
  /\ loc' = [loc EXCEPT ![t].tok = issued + 1]
  /\ pc' = [pc EXCEPT ![t] = "store"]
  /\ UNCHANGED <<STEAM_TOKEN, lock, botVars, lotVars>>

\* get_api_token() raises: the with block is left by the exception
FetchFails(t) ==
  /\ pc[t] = "fetch"
  /\ pc' = [pc EXCEPT ![t] = "release_raise"]
  /\ UNCHANGED <<STEAM_TOKEN, lock, issued, loc, botVars, lotVars>>

\* _set_token(token)
StoreToken(t) ==
  /\ pc[t] = "store"
  /\ STEAM_TOKEN' = loc[t].tok
  /\ pc' = [pc EXCEPT ![t] = "release"]
  /\ UNCHANGED <<lock, issued, loc, botVars, lotVars>>

\* the with block ends; the caller goes on: the request sends (after
\* _ensure_token) or sends again (after _refresh_token)
Release(t) ==
  /\ pc[t] = "release"
  /\ lock' = NoThread
  /\ pc' = [pc EXCEPT ![t] = CASE loc[t].op = "request" -> "send"
                               [] loc[t].op = "loop" -> "sleep"
                               [] OTHER -> "idle"]
  /\ loc' = [loc EXCEPT ![t].refreshes =
               IF loc[t].op = "request" /\ Len(loc[t].sends) > 0 THEN @ + 1 ELSE @]
  /\ UNCHANGED <<STEAM_TOKEN, issued, botVars, lotVars>>

ReleaseRaising_keeps_lock(t) ==
  /\ pc[t] = "release_raise"
  /\ pc' = [pc EXCEPT ![t] = IF t = "refresher" THEN "sleep" ELSE "idle"]
  /\ loc' = [loc EXCEPT ![t].result = Raised]
  /\ UNCHANGED <<STEAM_TOKEN, lock, issued, botVars, lotVars>>

\* the with block is left by the exception of get_api_token: the refresher
\* loop logs it (line 237), the event thread's call raises to its caller
ReleaseRaising(t) ==
  /\ pc[t] = "release_raise"
  /\ lock' = NoThread
  /\ pc' = [pc EXCEPT ![t] = IF t = "refresher" THEN "sleep" ELSE "idle"]
  /\ loc' = [loc EXCEPT ![t].result = Raised]
  /\ UNCHANGED <<STEAM_TOKEN, issued, botVars, lotVars>>

\* requests.request(...) with the header of steam_headers() and the body of
\* the call (lines 224, 228)
Send(t, status) ==
  /\ pc[t] = "send"
  /\ LET sends == Append(loc[t].sends,
                         [body |-> loc[t].body, token |-> STEAM_TOKEN, status |-> status])
         next  == IF status = Raised THEN "idle"
                  ELSE after_response(Len(sends), status, loc[t].retry)
     IN  /\ pc' = [pc EXCEPT ![t] = next]
         /\ loc' = [loc EXCEPT ![t].sends = sends,
                               ![t].result = IF next = "idle" THEN status ELSE NoValue]
  /\ UNCHANGED <<STEAM_TOKEN, lock, issued, botVars, lotVars>>

NextAuth ==
  \/ \E body \in Bodies : StartRequest(body)
  \/ StartOrderRefresh
  \/ RefresherWakes
  \/ \E t \in Threads : EnsureCheck(t)
  \/ \E t \in Threads : Acquire(t)
  \/ \E t \in Threads : EnsureRecheck(t)
  \/ \E t \in Threads : FetchToken(t)
  \/ \E t \in Threads : FetchFails(t)
  \/ \E t \in Threads : StoreToken(t)
  \/ \E t \in Threads : Release(t)
  \/ \E t \in Threads : ReleaseRaising(t)
  \/ \E t \in Threads, status \in SendReplies : Send(t, status)

----------------------------------------------------------------------------
(* deactivate_category: the listings of the category as the marketplace    *)
(* holds them, and the loop over them.  A listing has or lacks an id;      *)
(* get_lot_fields raises, returns None, a dict or an object; the fields    *)
(* carry the flags active, is_active and enabled, each "T", "F", "N" for   *)
(* None or "-" when the fields have no such entry; save_lot stores the     *)
(* fields or raises.                                                       *)

Lot(id, read, active, is_active, enabled, save) ==
  [id |-> id, read |-> read, save |-> save,
   flags |-> [active |-> active, is_active |-> is_active, enabled |-> enabled]]

LotKinds ==
  { Lot(FALSE, "obj", "T", "-", "-", "ok"),
    Lot(TRUE, "raises", "T", "-", "-", "ok"),
    Lot(TRUE, "none", "T", "-", "-", "ok"),
    Lot(TRUE, "dict", "T", "-", "-", "ok"),
    Lot(TRUE, "dict", "F", "-", "-", "ok"),
    Lot(TRUE, "dict", "-", "T", "-", "ok"),
    Lot(TRUE, "obj", "T", "-", "-", "ok"),
    Lot(TRUE, "obj", "T", "-", "-", "raises"),
    Lot(TRUE, "obj", "F", "-", "-", "ok"),
    Lot(TRUE, "obj", "-", "T", "-", "ok"),
    Lot(TRUE, "obj", "-", "-", "-", "ok") }

\* the listings the category can hold
LotLists == UNION {[1..n -> LotKinds] : n \in 0..MaxLots}

\* lines 355 and 362-367: the activity that the loop reads from the fields
active_val(read, flags) ==
  IF read = "dict"
  THEN IF flags.active # "-" THEN flags.active
       ELSE IF flags.is_active # "-" THEN flags.is_active ELSE "T"
  ELSE IF flags.active # "-" THEN flags.active
       ELSE IF flags.is_active # "-" THEN flags.is_active
       ELSE IF flags.enabled # "-" THEN flags.enabled ELSE "N"

\* lines 359 and 371-373: the flag that the loop clears
set_inactive(read, flags) ==
  IF read = "dict" \/ flags.active # "-" THEN [flags EXCEPT !.active = "F"]
  ELSE IF flags.is_active # "-" THEN [flags EXCEPT !.is_active = "F"]
  ELSE [flags EXCEPT !.enabled = "F"]

LotResult(outcome, saves, flags) == [outcome |-> outcome, saves |-> saves, flags |-> flags]

handle_lot_saves_inactive(lot) ==
  IF ~lot.id THEN LotResult("skipped", FALSE, lot.flags)
  ELSE IF lot.read = "raises" THEN LotResult("failed", FALSE, lot.flags)
  ELSE IF lot.read = "none" THEN LotResult("skipped", FALSE, lot.flags)
  ELSE IF lot.read = "obj" /\ \A f \in DOMAIN lot.flags : lot.flags[f] = "-"
  THEN LotResult("skipped", FALSE, lot.flags)
  ELSE IF lot.save = "raises" THEN LotResult("failed", TRUE, lot.flags)
  ELSE LotResult("deactivated", TRUE, set_inactive(lot.read, lot.flags))

\* lines 338-384, one turn of the loop: the counter that grows, whether
\* save_lot is called, the flags that the marketplace holds afterwards
handle_lot(lot) ==
  IF ~lot.id THEN LotResult("skipped", FALSE, lot.flags)
  ELSE IF lot.read = "raises" THEN LotResult("failed", FALSE, lot.flags)
  ELSE IF lot.read = "none" THEN LotResult("skipped", FALSE, lot.flags)
  ELSE IF lot.read = "dict" /\ active_val(lot.read, lot.flags) # "T"
  THEN LotResult("skipped", FALSE, lot.flags)
  ELSE IF lot.read = "obj" /\ active_val(lot.read, lot.flags) = "F"
  THEN LotResult("skipped", FALSE, lot.flags)
  ELSE IF lot.read = "obj" /\ \A f \in DOMAIN lot.flags : lot.flags[f] = "-"
  THEN LotResult("skipped", FALSE, lot.flags)
  ELSE IF lot.save = "raises" THEN LotResult("failed", TRUE, lot.flags)
  ELSE LotResult("deactivated", TRUE, set_inactive(lot.read, lot.flags))

\* the call at rest
NoJob ==
  [pc |-> "idle", i |-> 0, deactivated |-> 0, skipped |-> 0, failed |-> 0,
   saved |-> {}, before |-> <<>>]

LotsInit ==
  /\ market = <<>>
  /\ job = NoJob

\* lines 327-336: get_my_subcategory_lots raises or returns the listings
GetLots(raises) ==
  /\ job.pc = "idle"
  /\ job' = [job EXCEPT !.pc = IF raises THEN "list_failed"
                               ELSE IF market = <<>> THEN "no_lots" ELSE "loop",
                        !.i = 1, !.before = market]
  /\ UNCHANGED <<market, botVars, authVars>>

\* lines 337-384
HandleLot ==
  /\ job.pc = "loop"
  /\ job.i <= Len(market)
  /\ LET r == handle_lot(market[job.i]) IN
       /\ market' = [market EXCEPT ![job.i].flags = r.flags]
       /\ job' = [job EXCEPT !.i = @ + 1,
                             ![r.outcome] = @ + 1,
                             !.saved = IF r.saves THEN @ \cup {job.i} ELSE @]
  /\ UNCHANGED <<botVars, authVars>>

\* line 386
ReportLots ==
  /\ job.pc = "loop"
  /\ job.i > Len(market)
  /\ job' = [job EXCEPT !.pc = "reported"]
  /\ UNCHANGED <<market, botVars, authVars>>

----------------------------------------------------------------------------
(* The event loop *)

EmptyStore == [k \in {} |-> 0]

NullState ==
  [step |-> "-", created_at |-> 0, buyer_id |-> None, order_id |-> None,
   chat_id |-> None, amount |-> NoAmount, currency |-> "-",
   usd_amount |-> NoValue, paid |-> FALSE, login |-> "", keys |-> <<>>]

Snapshot(hp, sid) == IF sid \in DOMAIN hp THEN hp[sid] ELSE NullState

\* what the last event was and what its handler did: the event, the branch
\* taken, the session concerned (before and after), the collaborator calls in
\* order with their answers; made: the session dicts the handler built;
\* creates: the create_order calls made so far for the session concerned
Observed(kind, ev, st, pre) ==
  [kind |-> kind, ev |-> ev, act |-> st.act, sid |-> st.sid,
   fx |-> st.fx, pre |-> pre, post |-> Snapshot(st.heap, st.sid),
   made |-> (DOMAIN st.heap) \ (DOMAIN heap),
   store_changed |-> st.store # USER_STATES,
   creates |-> IF st.sid = 0 THEN 0 ELSE st.creates[st.sid]]

Idle(kind) ==
  [kind |-> kind, ev |-> None, act |-> "-", sid |-> 0, fx |-> <<>>,
   pre |-> NullState, post |-> NullState, made |-> {}, store_changed |-> FALSE,
   creates |-> 0]

\* the session that the store holds for the order before its intake
PreviousOf(order) ==
  LET k == UserOrderKey(norm_id(order.buyer_id), norm_id(order.id))
  IN  IF k \in DOMAIN USER_STATES THEN heap[USER_STATES[k]] ELSE NullState

\* a session dict lives as long as the store refers to it
Commit(st) ==
  LET live == Sids(st.store) IN
    /\ USER_STATES' = st.store
    /\ heap' = [x \in live |-> st.heap[x]]
    /\ createCalls' = [x \in 1..MaxSessions |-> IF x \in live THEN st.creates[x] ELSE 0]
    /\ payCalls' = st.pays

InitFeed(f) ==
  /\ USER_STATES = EmptyStore
  /\ heap = EmptyStore
  /\ now = 0
  /\ createCalls = [x \in 1..MaxSessions |-> 0]
  /\ payCalls = [o \in OrderIds |-> 0]
  /\ last = Idle("init")
  /\ feed = f
  /\ AuthInit

\* one valid order, possibly delivered again; every answer of the provider
\* during the conversation
FeedOne ==
  [audit |-> TRUE, orders |-> {RubOrder}, tokens |-> {Done}, refunds |-> {Done},
   rates |-> {Reply(200, FALSE, 256)}, messages |-> MessagesOne, check |-> CheckReplies,
   create |-> OrderReplies, pay |-> OrderReplies, balance |-> BalanceReplies]

\* one valid order and the invalid ones, every answer of the provider during
\* the intake; a buyer who gives one login and then another
FeedIntake ==
  [audit |-> FALSE, orders |-> {RubOrder} \cup BadOrders, tokens |-> {Done, RaisedReply},
   refunds |-> {Done, RaisedReply},
   rates |-> RatesReplies,
   messages |-> MessagesTwo \cup {Msg(IntId(7), IntId(1), None, "newell")},
   check |-> CheckReplies,
   create |-> {Done, Reply(500, FALSE, NoValue)}, pay |-> {Done},
   balance |-> {Reply(200, FALSE, MIN_BALANCE)}]

\* two valid orders of one buyer, a provider whose payment calls answer
FeedTwo ==
  [audit |-> FALSE, orders |-> {RubOrder, UsdOrder}, tokens |-> {Done}, refunds |-> {Done},
   rates |-> {Reply(200, FALSE, 256)}, messages |-> MessagesTwo,
   check |-> {Reply(200, FALSE, 1), Reply(200, FALSE, 0)},
   create |-> {Done, Reply(500, FALSE, NoValue)}, pay |-> {Done},
   balance |-> {Reply(200, FALSE, MIN_BALANCE)}]

\* any configuration
Init ==
  /\ InitFeed(FeedOne)
  /\ AUTO_REFUND \in BOOLEAN
  /\ AUTO_DEACTIVATE \in BOOLEAN
  /\ LotsInit

InitIntake ==
  /\ InitFeed(FeedIntake)
  /\ AUTO_REFUND \in BOOLEAN
  /\ AUTO_DEACTIVATE = TRUE
  /\ LotsInit

\* the default configuration
InitTwo ==
  /\ InitFeed(FeedTwo)
  /\ AUTO_REFUND = TRUE
  /\ AUTO_DEACTIVATE = TRUE
  /\ LotsInit

\* main, lines 843-845
NewOrderEvent(order, env) ==
  /\ Cardinality(Sids(USER_STATES)) < MaxSessions
  /\ LET st == handle_new_order(Machine(USER_STATES, heap, createCalls, payCalls), order, env)
     IN  /\ Commit(st)
         /\ last' = Observed("order", order, st, PreviousOf(order))
  /\ UNCHANGED <<now, AUTO_REFUND, AUTO_DEACTIVATE, feed, authVars, lotVars>>

\* main, lines 846-850
NewMessageEvent(m, env) ==
  /\ LET st0 == Machine(USER_STATES, heap, createCalls, payCalls)
         st  == handle_new_message(st0, m, env)
     IN  /\ Commit(st)
         /\ last' = Observed("message", m, st, Snapshot(heap, st.sid))
  /\ UNCHANGED <<now, AUTO_REFUND, AUTO_DEACTIVATE, feed, authVars, lotVars>>

\* time.time() advances
Tick ==
  /\ now < MaxTicks * TickLen
  /\ now' = now + TickLen
  /\ last' = Idle("tick")
  /\ UNCHANGED <<USER_STATES, heap, AUTO_REFUND, AUTO_DEACTIVATE, createCalls, payCalls, feed,
                 authVars, lotVars>>

Next ==
  \/ \E order \in feed.orders :
       \E env \in OrderEnvsFor(Machine(USER_STATES, heap, createCalls, payCalls), order) :
         NewOrderEvent(order, env)
  \/ \E m \in feed.messages :
       \E env \in MessageEnvs(Machine(USER_STATES, heap, createCalls, payCalls), m) :
         NewMessageEvent(m, env)
  \/ Tick

Spec == Init /\ [][Next]_vars

SpecIntake == InitIntake /\ [][Next]_vars

SpecTwo == InitTwo /\ [][Next]_vars

\* two valid orders of one buyer, the second one with another chat id
FeedChats ==
  [FeedTwo EXCEPT !.orders = {RubOrder, [UsdOrder EXCEPT !.chat_id = IntId(8)]}]

InitChats ==
  /\ InitFeed(FeedChats)
  /\ AUTO_REFUND = TRUE
  /\ AUTO_DEACTIVATE = TRUE
  /\ LotsInit

SpecChats == InitChats /\ [][Next]_vars

\* the threads of the credential alone
SpecAuth == InitTwo /\ [][NextAuth]_vars

\* what a thread does between entering and leaving a with block: the token
\* request answers or raises within REQUEST_TIMEOUT (line 193), the rest
\* are statements of the thread
InBlock(t) ==
  \/ EnsureRecheck(t)
  \/ FetchToken(t)
  \/ FetchFails(t)
  \/ StoreToken(t)
  \/ Release(t)
  \/ ReleaseRaising(t)

\* the threads of the credential, scheduled: a thread in a with block goes
\* on, and a thread that waits for the lock gets it when the lock is free
\* again and again
SpecAuthFair ==
  /\ InitTwo
  /\ [][NextAuth]_vars
  /\ \A t \in Threads : WF_vars(InBlock(t)) /\ SF_vars(Acquire(t))

----------------------------------------------------------------------------
(* The older bot, "Funpay-AutoSteam/bot_funpay.py": USER_STATES maps the    *)
(* buyer id as it comes to the session dict; no paid flag, no TTL; after a *)
(* successful payment the session waits in await_confirm_topup for the     *)
(* buyer's confirmation, then account.complete_order closes the order.     *)
(* The fields of a session that this bot does not have keep their null     *)
(* value.  create_order, pay_order, check_login and check_balance are as   *)
(* in the newer bot.                                                       *)

\* convert_to_usd, lines 127-142: a status other than 200 is only logged
old_convert_to_usd(st, currency, amount, reply) ==
  LET usd == IF currency = "USD" THEN amount
             ELSE IF reply.status = Raised THEN NoValue
             ELSE reply.value
      st1 == IF currency = "USD" THEN st ELSE Fx(st, "rates", currency, reply)
  IN  [st |-> st1, usd |-> usd]

\* _nice_refund, lines 304-309
old_nice_refund(st, chat_id, order_id, user_text) ==
  LET st1 == IF Truthy(chat_id) THEN send_message(st, chat_id, "refund_auto") ELSE st
  IN  Branch(IF Truthy(order_id) THEN Fx(st1, "refund", "-", Done) ELSE st1, user_text)

\* handle_new_order, lines 312-393
old_handle_new_order(st, order, env) ==
  IF order.subcategory # CATEGORY_ID THEN Branch(st, "ignored")
  ELSE IF ~HasMarker(order.desc)
  THEN old_nice_refund(st, order.chat_id, order.id, "no_currency")
  ELSE LET currency == ParseCurrency(order.desc) IN
  IF currency \notin DOMAIN MIN_AMOUNTS
  THEN old_nice_refund(st, order.chat_id, order.id, "bad_currency")
  ELSE IF order.amount = NoAmount
  THEN old_nice_refund(st, order.chat_id, order.id, "no_amount")
  ELSE IF order.amount < MIN_AMOUNTS[currency]
  THEN old_nice_refund(st, order.chat_id, order.id, "below_minimum")
  ELSE LET c == old_convert_to_usd(st, currency, order.amount, env.rates) IN
  IF c.usd = NoValue
  THEN old_nice_refund(c.st, order.chat_id, order.id, "no_conversion")
  ELSE LET sid == FreshSid(c.st)
           new == [NullState EXCEPT !.step = "waiting_login", !.order_id = order.id,
                                    !.chat_id = order.chat_id, !.amount = order.amount,
                                    !.currency = currency, !.usd_amount = c.usd]
           st1 == [c.st EXCEPT
                     !.heap = [x \in (DOMAIN c.st.heap) \cup {sid} |->
                                 IF x = sid THEN new ELSE c.st.heap[x]],
                     !.store = [k \in (DOMAIN c.st.store) \cup {order.buyer_id} |->
                                  IF k = order.buyer_id THEN sid ELSE c.st.store[k]],
                     !.creates[sid] = 0,
                     !.sid = sid]
       IN  Branch(send_message(st1, order.chat_id, "login_prompt"), "registered")

\* USER_STATES.pop(user_id, None)
old_pop(st, user_id) ==
  Fx([st EXCEPT !.store = [k \in (DOMAIN st.store) \ {user_id} |-> st.store[k]]],
     "pop_state", "-", Done)

\* lines 439-448 and 465-473
old_payment_failed(st, sid, m, env, what) ==
  LET st1 == send_message(st, m.chat_id, what)
      st2 == Fx(st1, "check_balance", "-", env.balance)
      st3 == IF check_balance(env.balance) < MIN_BALANCE
             THEN Fx(st2, "deactivate_category", "-", Done) ELSE st2
  IN  Branch(old_pop(Fx(st3, "refund", "-", Done), m.author_id), what)

\* lines 430-473
old_confirm_plus(st, sid, m, env) ==
  LET st1 == create_order(st, sid, env.create, env.uuid) IN
  IF env.create.status = Raised THEN Branch(st1, "create_raised")
  ELSE IF env.create.status # 200 \/ env.create.error
  THEN old_payment_failed(st1, sid, m, env, "create_failed")
  ELSE LET st2 == pay_order(st1, sid, custom_id_of(st1), env.pay) IN
  IF env.pay.status = Raised THEN Branch(st2, "pay_raised")
  ELSE IF env.pay.status = 200
  THEN Branch(send_message([st2 EXCEPT !.heap[sid].step = "await_confirm_topup"],
                           m.chat_id, "done_confirm"), "paid")
  ELSE old_payment_failed(st2, sid, m, env, "pay_failed")

old_complete_refunds(st, sid, m, env) ==
  LET st1 == Fx(st, "complete_order", "-", env.complete)
      st2 == Fx(st1, "refund", "-", Done)
  IN  Branch(old_pop(st2, m.author_id), "completion_refunded")

\* lines 497-522: the buyer confirms; the except clause catches an exception
\* of complete_order and of the send that follows it; the finally clause
\* removes the session, also when the send of the except clause raises
old_complete(st, sid, m, env) ==
  LET st1 == Fx(st, "complete_order", "-", env.complete)
      st2 == IF env.complete.status = Raised THEN st1
             ELSE Fx(st1, "send_message", "thanks", env.thanks)
      st3 == IF env.complete.status = Raised \/ env.thanks.status = Raised
             THEN Fx(st2, "send_message", "status_will_update", env.notice)
             ELSE st2
  IN  Branch(old_pop(st3, m.author_id),
             IF env.complete.status = Raised THEN "completion_failed"
             ELSE IF env.thanks.status = Raised THEN "thanks_failed"
             ELSE "completed")

\* handle_new_message, lines 395-522
old_handle_new_message(st, m, env) ==
  IF ~Truthy(m.author_id) \/ m.author_id \notin DOMAIN st.store
  THEN Branch(st, "no_session")
  ELSE LET sid  == st.store[m.author_id]
           st0  == [st EXCEPT !.sid = sid]
           step == st.heap[sid].step
       IN
  IF step = "waiting_login"
  THEN LET c == check_login(st0, m.text, env.check) IN
       IF ~c.ok
       THEN Branch(send_message(c.st, m.chat_id, "login_not_found"), "login_rejected")
       ELSE Branch(send_message([c.st EXCEPT !.heap[sid].login = m.text,
                                             !.heap[sid].step = "confirm_login"],
                                m.chat_id, "login_found"), "login_accepted")
  ELSE IF step = "confirm_login"
  THEN IF m.text = "+" THEN old_confirm_plus(st0, sid, m, env)
       ELSE LET c == check_login(st0, m.text, env.check) IN
            IF ~c.ok
            THEN Branch(send_message(c.st, m.chat_id, "new_login_not_found"),
                        "new_login_rejected")
            ELSE Branch(send_message([c.st EXCEPT !.heap[sid].login = m.text],
                                     m.chat_id, "new_login_found"), "new_login_accepted")
  ELSE IF step = "await_confirm_topup"
  THEN IF m.text = "+" THEN old_complete(st0, sid, m, env)
       ELSE Branch(send_message(st0, m.chat_id, "please_confirm"), "reminded")
  ELSE Branch(st0, "no_step")

\* the buyer (the id as an int or as a string) writes "+", one of the words
\* that confirm, or a login
MessagesOld ==
  { Msg(IntId(7), a, None, t) : a \in {IntId(1), StrId(1)}, t \in {"+", "gaben"} }

\*   complete : account.complete_order   thanks, notice : the two sends of
\*   lines 501 and 509
OldNoEnv ==
  [check |-> NoReply, create |-> NoReply, pay |-> NoReply, balance |-> NoReply,
   uuid |-> "-", rates |-> NoReply, complete |-> NoReply, thanks |-> NoReply,
   notice |-> NoReply]

\* the answers that the handling of m can meet in this state
OldMessageEnvs(st, m) ==
  IF ~Truthy(m.author_id) \/ m.author_id \notin DOMAIN st.store THEN {OldNoEnv}
  ELSE LET step == st.heap[st.store[m.author_id]].step
           \* the envs that agree with e on the fields of NoEnv
           Of(es) == {[f \in DOMAIN OldNoEnv |->
                         IF f \in DOMAIN NoEnv THEN e[f] ELSE NoReply] : e \in es}
       IN
  IF step = "waiting_login" \/ (step = "confirm_login" /\ m.text # "+")
  THEN Of(CheckEnvs(feed))
  ELSE IF step = "confirm_login" THEN Of(PayEnvs(feed))
  ELSE IF step = "await_confirm_topup" /\ m.text = "+"
  THEN {[OldNoEnv EXCEPT !.complete = RaisedReply, !.notice = n] : n \in {Done, RaisedReply}}
       \cup {[OldNoEnv EXCEPT !.complete = Done, !.thanks = Done]}
       \cup {[OldNoEnv EXCEPT !.complete = Done, !.thanks = RaisedReply, !.notice = n] :
               n \in {Done, RaisedReply}}
  ELSE {OldNoEnv}

\* two valid orders of the buyer; every answer of the provider during the
\* payment
FeedOld ==
  [audit |-> FALSE, orders |-> {RubOrder, UsdOrder}, tokens |-> {Done}, refunds |-> {Done},
   rates |-> {Reply(200, FALSE, 256), RaisedReply}, messages |-> MessagesOld,
   check |-> {Reply(200, FALSE, 1), Reply(200, FALSE, 0)},
   create |-> OrderReplies, pay |-> OrderReplies,
   balance |-> {Reply(200, FALSE, MIN_BALANCE - 1), Reply(200, FALSE, MIN_BALANCE)}]

InitOld ==
  /\ InitFeed(FeedOld)
  /\ AUTO_REFUND = TRUE
  /\ AUTO_DEACTIVATE = TRUE
  /\ LotsInit

\* main, lines 539-541
OldOrderEvent(order, env) ==
  /\ Cardinality(Sids(USER_STATES)) < MaxSessions
  /\ LET st == old_handle_new_order(Machine(USER_STATES, heap, createCalls, payCalls),
                                    order, env)
     IN  /\ Commit(st)
         /\ last' = Observed("order", order, st, NullState)
  /\ UNCHANGED <<now, AUTO_REFUND, AUTO_DEACTIVATE, feed, authVars, lotVars>>

\* main, lines 542-543
OldMessageEvent(m, env) ==
  /\ LET st0 == Machine(USER_STATES, heap, createCalls, payCalls)
         st  == old_handle_new_message(st0, m, env)
     IN  /\ Commit(st)
         /\ last' = Observed("message", m, st, Snapshot(heap, st.sid))
  /\ UNCHANGED <<now, AUTO_REFUND, AUTO_DEACTIVATE, feed, authVars, lotVars>>

NextOld ==
  \/ \E order \in feed.orders :
       \E env \in {[OldNoEnv EXCEPT !.rates = r] :
                     r \in IF ParseCurrency(order.desc) = "USD" THEN {NoReply}
                           ELSE feed.rates} :
         OldOrderEvent(order, env)
  \/ \E m \in feed.messages :
       \E env \in OldMessageEnvs(Machine(USER_STATES, heap, createCalls, payCalls), m) :
         OldMessageEvent(m, env)

SpecOld == InitOld /\ [][NextOld]_vars

\* the listings of the category and one call of deactivate_category
InitLots ==
  /\ InitFeed(FeedTwo)
  /\ AUTO_REFUND = TRUE
  /\ AUTO_DEACTIVATE = TRUE
  /\ market \in LotLists
  /\ job = NoJob

NextLots ==
  \/ \E raises \in BOOLEAN : GetLots(raises)
  \/ HandleLot
  \/ ReportLots

SpecLots == InitLots /\ [][NextLots]_vars

----------------------------------------------------------------------------
(* Reading the record of the last event *)

\* the positions of last.fx that are calls of op
Calls(op) == {i \in 1..Len(last.fx) : last.fx[i].op = op}
Called(op) == Calls(op) # {}
Sent(text) == \E i \in Calls("send_message") : last.fx[i].arg = text

\* everything a handler can do to the provider, the marketplace or the buyer
OutboundOps == {"get_api_token", "rates", "check_login", "create_order", "pay_order",
                "check_balance", "deactivate_category", "refund", "send_message"}

\* some key of the store maps to the session
Registered(sid) == \E k \in DOMAIN USER_STATES : USER_STATES[k] = sid

\* the call of op in the last event got an answer (not an exception) that
\* is a non-success status or, with errorCounts, carries an error payload
FailureAnswer(op, errorCounts) ==
  \E i \in Calls(op) :
    LET r == last.fx[i].reply IN
      r.status # Raised /\ (r.status # 200 \/ (errorCounts /\ r.error))

----------------------------------------------------------------------------
(* Claims *)

\* C1: over any sequence of messages to one session, repeated "+" included,
\* create_order is called at most once for the session; a message that
\* resolves to a session in step paying or finished makes no provider call,
\* sends nothing and leaves every field of the session as it was.
C1_CreateOrderOncePerSession ==
  /\ \A s \in 1..MaxSessions : createCalls[s] <= 1
  /\ last.creates <= 1
  /\ (last.kind = "message" /\ last.sid # 0 /\ last.pre.step \in {"paying", "finished"})
       => /\ \A i \in 1..Len(last.fx) : last.fx[i].op \notin OutboundOps
          /\ last.post = last.pre

\* a "+" reached a session that is paying after its one create_order call
C1_Witness ==
  /\ last.kind = "message"
  /\ last.ev.text = "+"
  /\ last.sid # 0
  /\ last.pre.step = "paying"
  /\ last.creates = 1
  /\ Registered(last.sid)

\* C2: over any sequence of events, a redelivered NewOrder included, pay_order
\* (which follows create_order) is called at most once per marketplace order.
C2_PaymentOncePerOrder == \A o \in OrderIds : payCalls[o] <= 1

\* C3: paid of a session never goes from true to false, and it is true at
\* every call of create_order for the session.
C3_PaidMonotoneAndFirst ==
  /\ [](/\ \A i \in Calls("create_order") : last.fx[i].paid
        /\ (last.kind = "message" /\ last.sid # 0 /\ last.pre.paid) => last.post.paid)
  /\ [][\A s \in (DOMAIN heap) \cap (DOMAIN heap') : heap[s].paid => heap'[s].paid]_vars

\* paid went from false to true in the event that called create_order
C3_Witness ==
  /\ last.kind = "message"
  /\ Called("create_order")
  /\ ~last.pre.paid
  /\ last.post.paid

\* C4: when create_order or pay_order raises (timeout), the buyer is
\* notified, the balance is checked, the refund is made when AUTO_REFUND and
\* the session leaves the store.
C4_TimeoutCompensated ==
  (/\ last.kind = "message"
   /\ \E i \in Calls("create_order") \cup Calls("pay_order") :
        last.fx[i].reply.status = Raised)
    => /\ Called("send_message")
       /\ Called("check_balance")
       /\ AUTO_REFUND => Called("refund")
       /\ ~Registered(last.sid)

InCategory(order) == order.subcategory = CATEGORY_ID

\* the order, read by itself: the marker is there, the currency after it is
\* a supported one, the amount is there and not below the minimum
WellFormed(order) ==
  /\ HasMarker(order.desc)
  /\ ParseCurrency(order.desc) \in Currencies
  /\ order.amount # NoAmount
  /\ order.amount >= MIN_AMOUNTS[ParseCurrency(order.desc)]

\* the conversion of the last event gave an amount / gave none
Converted == \E i \in Calls("convert_to_usd") : last.fx[i].reply.value # NoValue
ConversionFailed == \E i \in Calls("convert_to_usd") : last.fx[i].reply.value = NoValue

\* C6: every NewOrder of the configured category ends either with a session
\* and the login prompt or with a call of _nice_refund, whichever step of
\* the intake fails, the token refresh included.
C6_OrderNeverDropped ==
  (last.kind = "order" /\ InCategory(last.ev))
    => \/ last.made # {} /\ Sent("login_prompt") /\ ~Called("nice_refund")
       \/ last.made = {} /\ ~Sent("login_prompt") /\ Called("nice_refund")

\* C7: for an order of the category without a marker, with an unsupported
\* currency, without an amount, below the minimum or with a failed
\* conversion, handle_new_order builds no session, sends no login prompt,
\* leaves the store as it was and calls _nice_refund exactly once.
C7_InvalidOrderCompensatedOnce ==
  (last.kind = "order" /\ InCategory(last.ev)
     /\ (~WellFormed(last.ev) \/ ConversionFailed))
    => /\ last.made = {}
       /\ ~Sent("login_prompt")
       /\ ~last.store_changed
       /\ Cardinality(Calls("nice_refund")) = 1

\* C8: for a valid order (supported currency, amount at least the minimum,
\* conversion done) with chat, buyer and order id, handle_new_order builds
\* exactly one session, in step waiting_login with paid false, and right
\* after it the chat key, the user key and the composite key of the order
\* all hold that session.
C8_ValidOrderRegistered ==
  (/\ last.kind = "order"
   /\ InCategory(last.ev)
   /\ WellFormed(last.ev)
   /\ Converted
   /\ Truthy(last.ev.chat_id) /\ Truthy(last.ev.buyer_id) /\ Truthy(last.ev.id))
    => /\ Cardinality(last.made) = 1
       /\ \A s \in last.made :
            /\ s \in DOMAIN heap
            /\ heap[s].step = "waiting_login"
            /\ ~heap[s].paid
            /\ heap[s].order_id = last.ev.id
            /\ \A k \in { ChatKey(norm_id(last.ev.chat_id)),
                          UserKey(norm_id(last.ev.buyer_id)),
                          UserOrderKey(norm_id(last.ev.buyer_id), norm_id(last.ev.id)) } :
                 k \in DOMAIN USER_STATES /\ USER_STATES[k] = s

\* the order at the minimum of its currency was converted and registered
C8_Witness ==
  /\ last.kind = "order"
  /\ WellFormed(last.ev)
  /\ last.ev.amount = MIN_AMOUNTS["RUB"]
  /\ Called("rates")
  /\ Converted
  /\ last.made # {}

\* C9: in every state each session is in the store under every key of its
\* recorded key set or under none of them.
C9_KeysAllOrNone ==
  \A s \in DOMAIN heap :
    LET ks  == SeqRange(heap[s].keys)
        reg == {k \in ks : k \in DOMAIN USER_STATES /\ USER_STATES[k] = s}
    IN  reg = ks \/ reg = {}

\* C10: in every state the store holds at most one session object per
\* order id, also after the same order was delivered twice.
C10_OneSessionPerOrder ==
  \A s1, s2 \in Sids(USER_STATES) :
    norm_id(heap[s1].order_id) = norm_id(heap[s2].order_id) => s1 = s2

\* an order was delivered again while its session and the session of
\* another order were in the store
C10_Witness ==
  /\ last.kind = "order"
  /\ last.made # {}
  /\ last.pre.step # "-"
  /\ last.pre.order_id = last.ev.id
  /\ Cardinality(Sids(USER_STATES)) = 2

\* the place of a step in waiting_login -> confirm_login -> paying -> finished
StepRank(step) == CASE step = "waiting_login" -> 1
                    [] step = "confirm_login" -> 2
                    [] step = "paying" -> 3
                    [] step = "finished" -> 4
                    [] OTHER -> 0

\* C11: the step of a session object only moves forward along
\* waiting_login -> confirm_login -> paying -> finished; no event takes it
\* to an earlier step (and none takes waiting_login past confirm_login).
C11_StepNeverBack ==
  /\ []((last.kind = "message" /\ last.sid # 0)
          => /\ StepRank(last.post.step) >= StepRank(last.pre.step)
             /\ last.pre.step = "waiting_login"
                  => last.post.step \in {"waiting_login", "confirm_login"})
  /\ [][\A s \in (DOMAIN heap) \cap (DOMAIN heap') :
          StepRank(heap'[s].step) >= StepRank(heap[s].step)]_vars

\* one event took a session from confirm_login through paying to finished
C11_Witness ==
  /\ last.kind = "message"
  /\ last.pre.step = "confirm_login"
  /\ last.post.step = "finished"

\* lookups the store can be asked: from the chat of the orders, from another
\* chat or without a chat; by the buyer or without an author; naming an
\* order or not
LookupProbes ==
  { Msg(c, a, o, "+") : c \in {None, IntId(7), IntId(8)},
                        a \in {None, IntId(1)},
                        o \in {None, IntId(1), IntId(2)} }

Reverse(s) == [i \in 1..Len(s) |-> s[Len(s) + 1 - i]]

\* C12: the lookup tries the composite key, then the user key, then the chat
\* key, and returns the session under the first of them that the store holds.
C12_CompositeKeyFirst ==
  \A m \in LookupProbes :
    LET keys == state_keys(m.chat_id, m.author_id, m.order_id)
    IN  (\E i \in 1..Len(keys) : keys[i] \in DOMAIN USER_STATES)
          => find_state_for_message(USER_STATES, m)
               = FirstHit(USER_STATES, Reverse(keys))

\* the registered sessions of the buyer who wrote m
SessionsOfAuthor(m) ==
  {s \in Sids(USER_STATES) : norm_id(heap[s].buyer_id) = norm_id(m.author_id)}

\* neither the chat key nor the composite key of m is in the store
OnlyByAuthor(m) ==
  /\ Truthy(m.author_id)
  /\ \A k \in SeqRange(state_keys(m.chat_id, m.author_id, m.order_id)) :
       k \in DOMAIN USER_STATES => k.tag = "user"

\* C13: a message that can be matched only through the buyer identity of its
\* author, when that buyer has more than one registered session, finds no
\* session.
C13_AmbiguousBuyerNotFound ==
  \A m \in LookupProbes :
    (OnlyByAuthor(m) /\ Cardinality(SessionsOfAuthor(m)) > 1)
      => find_state_for_message(USER_STATES, m) = 0

\* the last event was a message that the lookup resolved to a session older
\* than SESSION_TTL
ResolvedToExpired ==
  /\ last.kind = "message"
  /\ last.sid # 0
  /\ now - last.pre.created_at > SESSION_TTL

\* the author guard of line 659 lets the message of the last event pass
PassesAuthorGuard ==
  ~(Truthy(last.ev.author_id) /\ Truthy(last.pre.buyer_id)
      /\ last.ev.author_id # last.pre.buyer_id)

\* the session of the last event is under none of its keys
RemovedFromEveryKey ==
  /\ ~Registered(last.sid)
  /\ \A k \in SeqRange(last.pre.keys) : k \notin DOMAIN USER_STATES

\* a message to an expired session sends nothing, calls nobody and changes
\* no field of the session
NothingForExpired ==
  /\ \A i \in 1..Len(last.fx) : last.fx[i].op \notin OutboundOps
  /\ last.post = last.pre

\* C14 (as stated): a message that resolves to an expired session causes no
\* prompt, step change, login change or payment, and the first such message
\* removes the session from every one of its keys.
C14_ExpiredRemovedOnFirstMessage ==
  ResolvedToExpired => (NothingForExpired /\ RemovedFromEveryKey)

\* C14 (amended): a message that resolves to an expired session causes no
\* prompt, step change, login change or payment; the first such message that
\* the author guard lets pass removes the session from every one of its keys.
C14_ExpiredRemovedOnFirstBuyerMessage ==
  ResolvedToExpired
    => /\ NothingForExpired
       /\ PassesAuthorGuard => RemovedFromEveryKey

\* the buyer wrote to a session in confirm_login after its TTL and the
\* session left the store
C14_Witness ==
  /\ ResolvedToExpired
  /\ PassesAuthorGuard
  /\ last.pre.step = "confirm_login"
  /\ last.ev.text = "+"
  /\ Called("pop_state")
  /\ ~Registered(last.sid)

\* the lookups that use some of the chat, buyer and order id of a session
ProbesOf(state) ==
  { Msg(c, a, o, "+") : c \in {None, state.chat_id},
                        a \in {None, state.buyer_id},
                        o \in {None, state.order_id} }

\* the store after _pop_state(s) in the present state, and after a second
\* _pop_state(s)
StoreAfterPop(s) ==
  pop_state(Machine(USER_STATES, heap, createCalls, payCalls), s).store
StoreAfterPopTwice(s) ==
  LET st1 == pop_state(Machine(USER_STATES, heap, createCalls, payCalls), s)
  IN  pop_state(st1, s).store

\* C15: after _pop_state(s) no lookup by any combination of the chat, buyer
\* and order id of s returns s, and a second _pop_state(s) leaves the store
\* as the first one left it.
C15_RemovedNotFoundAndIdempotent ==
  /\ \A s \in DOMAIN heap :
       /\ \A m \in ProbesOf(heap[s]) : find_state_for_message(StoreAfterPop(s), m) # s
       /\ StoreAfterPopTwice(s) = StoreAfterPop(s)
  /\ (last.kind = "message" /\ Called("pop_state"))
       => \A m \in ProbesOf(last.pre) : find_state_for_message(USER_STATES, m) # last.sid

\* a handler removed one session while the session of another order of the
\* same buyer stayed in the store
C15_Witness ==
  /\ last.kind = "message"
  /\ Called("pop_state")
  /\ last.pre.keys # <<>>
  /\ Sids(USER_STATES) # {}
  /\ \A s \in Sids(USER_STATES) : heap[s].buyer_id = last.pre.buyer_id

\* the message of the last event resolved to a session whose buyer is
\* another identity than its author
FromAnotherIdentity ==
  /\ last.kind = "message"
  /\ last.sid # 0
  /\ Truthy(last.pre.buyer_id)
  /\ Truthy(last.ev.author_id)
  /\ norm_id(last.ev.author_id) # norm_id(last.pre.buyer_id)

TheRequest == loc["event"]

\* C17: a call of _request_with_refresh sends the request at most twice; the
\* second send only follows an answer 401/403 to the first, comes after
\* exactly one _refresh_token of the call, carries the body of the first,
\* and its answer is what the call returns, 401/403 included.
C17_AtMostOneRetry ==
  TheRequest.op = "request"
    => LET sends == TheRequest.sends IN
       /\ Len(sends) <= 2
       /\ TheRequest.refreshes <= 1
       /\ (pc["event"] = "send" /\ Len(sends) = 1) => TheRequest.refreshes = 1
       /\ Len(sends) = 2
            => /\ sends[1].status \in {401, 403}
               /\ TheRequest.refreshes = 1
               /\ sends[2].body = sends[1].body
               /\ pc["event"] = "idle"
               /\ TheRequest.result = sends[2].status
       /\ (pc["event"] = "idle" /\ Len(sends) = 1)
            => TheRequest.result = IF sends[1].status \in {401, 403} THEN Raised
                                   ELSE sends[1].status

\* the second send was answered 403 again and the call returned that answer
C17_Witness ==
  /\ TheRequest.op = "request"
  /\ pc["event"] = "idle"
  /\ Len(TheRequest.sends) = 2
  /\ TheRequest.sends[2].status = 403
  /\ TheRequest.result = 403

\* the threads between the start of a token fetch and the end of its store
Fetching == {t \in Threads : pc[t] \in {"fetch", "store"}}

\* C18: whatever the interleaving of the refresher thread and the event
\* thread, at most one thread is between the start of a token fetch and the
\* store of its result, and no stored token is replaced by one fetched
\* earlier.
C18_OneFetcherAtATime ==
  /\ [](/\ Cardinality(Fetching) <= 1
        /\ \A t \in Fetching : lock = t)
  /\ [][STEAM_TOKEN' >= STEAM_TOKEN]_vars

\* the event thread waits for the lock, to refresh after a 401/403, while
\* the refresher thread holds a fetched token it has not stored yet
C18_Witness ==
  /\ pc["refresher"] = "store"
  /\ pc["event"] = "acquire"
  /\ loc["event"].op = "request"
  /\ STEAM_TOKEN # 0
  /\ loc["refresher"].tok > STEAM_TOKEN

\* the create_order call at position i of last.fx answered with success
CreateSucceeded(i) ==
  /\ last.fx[i].op = "create_order"
  /\ last.fx[i].reply.status = 200
  /\ ~last.fx[i].reply.error

\* C19: in one payment attempt pay_order is called only after a create_order
\* of the attempt that succeeded, and with the custom_id made for that
\* create_order; the failure message and the refund are each made at most
\* once, and for one failure only.
C19_PayAfterCreateWithItsId ==
  last.kind = "message"
    => /\ Cardinality(Calls("create_order")) <= 1
       /\ Cardinality(Calls("pay_order")) <= 1
       /\ \A i \in Calls("pay_order") :
            /\ i > 2
            /\ CreateSucceeded(i - 1)
            /\ last.fx[i - 2].op = "uuid4"
            /\ last.fx[i].arg = last.fx[i - 2].arg
       /\ Cardinality(Calls("refund")) <= 1
       /\ Cardinality({i \in Calls("send_message") :
                         last.fx[i].arg \in {"create_failed", "pay_failed"}}) <= 1
       /\ Cardinality(Calls("pop_state")) <= 1

\* pay_order was refused after a create_order that had succeeded, and the
\* attempt was compensated
C19_Witness ==
  /\ last.kind = "message"
  /\ \E i \in Calls("pay_order") :
       last.fx[i].reply.status = 500 /\ last.fx[i].arg = "u2"
  /\ Sent("pay_failed")
  /\ Called("refund")

C22_CompletionFailureNotRefunded ==
  (/\ last.kind = "message"
   /\ last.pre.step = "await_confirm_topup"
   /\ \E i \in Calls("complete_order") : last.fx[i].reply.status = Raised)
    => /\ Sent("status_will_update")
       /\ ~Sent("thanks")
       /\ ~Called("refund")
       /\ ~Registered(last.sid)
       /\ last.ev.author_id \notin DOMAIN USER_STATES

\* complete_order raised for a session whose payment had succeeded
C22_Witness ==
  /\ last.kind = "message"
  /\ last.act = "completion_failed"
  /\ last.pre.step = "await_confirm_topup"
  /\ last.pre.login = "gaben"
  /\ \E i \in Calls("complete_order") : last.fx[i].reply.status = Raised

\* C23: a message of the buyer to a session in waiting_login (in time, with
\* a text) is checked as a login.  If the check fails, step stays
\* waiting_login, login stays unset and the buyer is prompted again; if it
\* passes, the text becomes login, step becomes confirm_login and the
\* confirmation prompt is sent.  Neither case calls create_order, pay_order
\* or the refund.
C23_WaitingLoginValidates ==
  (/\ last.kind = "message"
   /\ last.sid # 0
   /\ last.pre.step = "waiting_login"
   /\ last.ev.author_id = last.pre.buyer_id
   /\ now - last.pre.created_at <= SESSION_TTL)
    => /\ Cardinality(Calls("check_login")) = 1
       /\ \A i \in Calls("check_login") :
            /\ last.fx[i].arg = last.ev.text
            /\ IF last.fx[i].reply.status # Raised /\ last.fx[i].reply.value = 1
               THEN /\ last.post.login = last.ev.text
                    /\ last.post.step = "confirm_login"
                    /\ Sent("login_found")
                    /\ ~Sent("login_not_found")
               ELSE /\ last.post.login = ""
                    /\ last.post.step = "waiting_login"
                    /\ Sent("login_not_found")
                    /\ ~Sent("login_found")
       /\ Cardinality(Calls("send_message")) = 1
       /\ ~Called("create_order") /\ ~Called("pay_order") /\ ~Called("refund")
       /\ ~last.post.paid
       /\ Registered(last.sid)

\* the provider did not know the login that the buyer gave
C23_Witness ==
  /\ last.kind = "message"
  /\ last.pre.step = "waiting_login"
  /\ last.act = "login_rejected"
  /\ last.ev.text = "gaben"
  /\ \E i \in Calls("check_login") : last.fx[i].reply = Reply(200, FALSE, 0)

\* C24: a message other than "+" to a session in confirm_login whose paid is
\* false is checked as a replacement login: if the check passes, login
\* becomes the text; if it fails, login keeps its value.  In both cases step
\* stays confirm_login, paid stays false and neither create_order nor
\* pay_order is called.
C24_ReplacementLogin ==
  (/\ last.kind = "message"
   /\ last.sid # 0
   /\ last.pre.step = "confirm_login"
   /\ ~last.pre.paid
   /\ last.ev.text \notin {"+", ""}
   /\ last.ev.author_id = last.pre.buyer_id
   /\ now - last.pre.created_at <= SESSION_TTL)
    => /\ Cardinality(Calls("check_login")) = 1
       /\ \A i \in Calls("check_login") :
            /\ last.fx[i].arg = last.ev.text
            /\ last.post.login =
                 IF last.fx[i].reply.status # Raised /\ last.fx[i].reply.value = 1
                 THEN last.ev.text ELSE last.pre.login
       /\ last.post.step = "confirm_login"
       /\ ~last.post.paid
       /\ ~Called("create_order") /\ ~Called("pay_order")
       /\ Registered(last.sid)

\* the replacement was rejected and the confirmed login stayed
C24_Witness ==
  /\ last.kind = "message"
  /\ last.act = "new_login_rejected"
  /\ last.pre.step = "confirm_login"
  /\ last.pre.login = "gaben"
  /\ last.ev.text = "newell"
  /\ last.post.login = "gaben"

\* C25: an order of another category than CATEGORY_ID is rejected silently:
\* the handler builds no session, leaves the store as it is, sends the
\* buyer nothing and invokes no refund.
C25_ForeignCategoryIgnored ==
  (last.kind = "order" /\ ~InCategory(last.ev))
    => /\ last.made = {}
       /\ ~last.store_changed
       /\ last.sid = 0
       /\ ~Called("send_message")
       /\ ~Called("nice_refund")
       /\ ~Called("refund")
       /\ ~Called("rates")

\* an order of another category arrived while a session was registered
C25_Witness ==
  /\ last.kind = "order"
  /\ last.ev.subcategory # CATEGORY_ID
  /\ last.act = "ignored"
  /\ HasMarker(last.ev.desc)
  /\ Sids(USER_STATES) # {}

\* C26: on a payment failure the balance is queried once (C37: a query that
\* fails counts as a balance of zero); the listings of the category are
\* deactivated if and only if that balance is below MIN_BALANCE and
\* AUTO_DEACTIVATE is on; the query, then the deactivation, come before the
\* refund call of that failure.
C26_DeactivatedIffBalanceLow ==
  last.kind = "message"
    => /\ (FailureAnswer("create_order", TRUE) \/ FailureAnswer("pay_order", FALSE))
            => Cardinality(Calls("check_balance")) = 1
       /\ Called("deactivate_category")
            <=> /\ AUTO_DEACTIVATE
                /\ \E i \in Calls("check_balance") :
                     check_balance(last.fx[i].reply) < MIN_BALANCE
       /\ Cardinality(Calls("deactivate_category")) <= 1
       /\ \A i \in Calls("check_balance"), j \in Calls("deactivate_category") : i < j
       /\ \A i \in Calls("check_balance") \cup Calls("deactivate_category"),
             j \in Calls("refund") : i < j

\* pay_order answered 500, the provider reported a balance below the floor,
\* the listings were deactivated and the refund was made
C26_Witness ==
  /\ last.kind = "message"
  /\ last.act = "pay_failed"
  /\ \E i \in Calls("check_balance") : last.fx[i].reply.value = MIN_BALANCE - 1
  /\ Called("deactivate_category")
  /\ Called("refund")

\* C27: the answer of pay_order is judged like the answer of create_order (a
\* non-success status or an error payload is a failure): whenever it fails
\* that test the session is compensated and removed, its step never becomes
\* finished and the completion notice is not sent.
C27_PayJudgedLikeCreate ==
  (last.kind = "message" /\ FailureAnswer("pay_order", TRUE))
    => /\ Sent("pay_failed")
       /\ Called("check_balance")
       /\ AUTO_REFUND => Called("refund")
       /\ ~Registered(last.sid)
       /\ last.post.step # "finished"
       /\ ~Sent("done")

\* C28: deactivate_category handles every listing of the category, also
\* after the read or the save of an earlier one failed: each turn of the
\* loop counts its listing once, so that deactivated + skipped + failed is
\* the number of listings handled and, at the report, the number of listings
\* enumerated; a listing that was inactive is not saved again; a listing
\* that was active and whose fields were read and saved ends inactive.
C28_EveryListingHandled ==
  LET first(l) == IF l.flags.active # "-" THEN l.flags.active
                  ELSE IF l.flags.is_active # "-" THEN l.flags.is_active
                  ELSE l.flags.enabled
      handled  == IF job.pc = "loop" THEN job.i - 1
                  ELSE IF job.pc = "reported" THEN Len(market) ELSE 0
  IN  /\ job.pc \in {"loop", "reported"}
           => /\ job.deactivated + job.skipped + job.failed = handled
              /\ job.saved \subseteq 1..handled
              /\ \A i \in 1..handled :
                   /\ first(job.before[i]) = "F" => i \notin job.saved
                   /\ (/\ first(job.before[i]) = "T"
                       /\ job.before[i].id
                       /\ job.before[i].read \in {"dict", "obj"}
                       /\ job.before[i].save = "ok")
                        => /\ i \in job.saved
                           /\ first(market[i]) = "F"
                   /\ i \notin job.saved => market[i] = job.before[i]
      /\ job.pc = "reported" => job.i = Len(market) + 1

\* the report was reached although the read of one listing and the save of
\* another failed before the last listing, which was deactivated
C28_Witness ==
  /\ job.pc = "reported"
  /\ Len(market) = 3
  /\ market[1].read = "raises"
  /\ market[2].save = "raises" /\ 2 \in job.saved
  /\ job.failed = 2
  /\ job.deactivated = 1
  /\ 3 \in job.saved

\* C29: the lookup does not depend on the representation of the ids: a
\* message that gives the chat, buyer and order id as decimal strings
\* resolves to the same session as the message that gives them as integers;
\* normalising a normalised id changes nothing; and a message of the buyer
\* of the session it resolves to, whatever the representation of its
\* author id, is handled and not dropped as coming from another identity.
C29_RepresentationIndependent ==
  LET AsStr(v) == IF v = None THEN None ELSE StrId(v.n)
      AsInt(v) == IF v = None THEN None ELSE IntId(v.n)
  IN  /\ \A m \in LookupProbes :
           /\ find_state_for_message(USER_STATES,
                Msg(AsStr(m.chat_id), AsStr(m.author_id), AsStr(m.order_id), m.text))
                = find_state_for_message(USER_STATES, m)
           /\ find_state_for_message(USER_STATES,
                Msg(AsInt(m.chat_id), AsInt(m.author_id), AsInt(m.order_id), m.text))
                = find_state_for_message(USER_STATES, m)
           /\ \A v \in {m.chat_id, m.author_id, m.order_id, AsStr(m.author_id)} :
                norm_id(norm_id(v)) = norm_id(v)
      /\ (/\ last.kind = "message"
          /\ last.sid # 0
          /\ norm_id(last.ev.author_id) = norm_id(last.pre.buyer_id))
           => last.act # "foreign_author"

\* C30: a session that enters step paying has left the store when the
\* handling of that event ends, whatever the provider and the marketplace
\* do: between two events no registered session is in step paying.
C30_NoSessionLeftPaying ==
  \A s \in Sids(USER_STATES) : heap[s].step # "paying"

\* C31: removing or expiring a session unregisters no key that maps to
\* another session: over a message event, which is where _pop_state runs,
\* every other session stays registered under exactly the keys it had.
C31_PopLeavesOtherSessions ==
  [][last'.kind = "message"
       => \A s \in Sids(USER_STATES) \ {last'.sid} :
            {k \in DOMAIN USER_STATES' : USER_STATES'[k] = s}
              = {k \in DOMAIN USER_STATES : USER_STATES[k] = s}]_vars

\* C32: between two events every registered session has paid true if and
\* only if its step is paying or finished; so a session in confirm_login
\* has paid false, and neither the "already processing" answer to a "+" nor
\* the "too late" answer to a replacement login is ever given.
C32_PaidIffPayingOrFinished ==
  /\ \A s \in Sids(USER_STATES) :
       heap[s].paid <=> heap[s].step \in {"paying", "finished"}
  /\ last.kind = "message" => last.act \notin {"already_processing", "too_late"}
  /\ ~Sent("already_processing") /\ ~Sent("too_late")

\* a session stayed registered in step paying with paid true, and a "+" to
\* it was dropped by the duplicate guard
C32_Witness ==
  /\ last.kind = "message"
  /\ last.ev.text = "+"
  /\ last.act = "duplicate"
  /\ Registered(last.sid)
  /\ heap[last.sid].paid
  /\ heap[last.sid].step = "paying"

\* C33: for a session the refund of the marketplace is invoked at most once
\* and never after pay_order answered with success: the event that refunds
\* calls the refund once, has no successful pay_order and removes the
\* session; the event whose pay_order succeeds calls no refund and removes
\* the session, so that no later event can act on it.
C33_RefundOnceAndNotAfterPayment ==
  LET PaySucceeded == \E i \in Calls("pay_order") : last.fx[i].reply.status = 200
  IN  last.kind = "message"
        => /\ Cardinality(Calls("refund")) <= 1
           /\ Called("refund")
                => /\ ~PaySucceeded
                   /\ last.post.step # "finished"
                   /\ ~Registered(last.sid)
           /\ PaySucceeded
                => /\ ~Called("refund")
                   /\ last.post.step = "finished"
                   /\ ~Registered(last.sid)

\* the refund raised after create_order had failed; it was not called again
C33_Witness ==
  /\ last.kind = "message"
  /\ last.act = "create_failed"
  /\ \E i \in Calls("refund") : last.fx[i].reply.status = Raised
  /\ ~Registered(last.sid)

\* C34: a session whose step is confirm_login or later has a login that
\* check_login accepted, and create_order is sent the login accepted last:
\* the login of a session changes only in an event whose check_login call
\* was about the new value and was answered "found"; every accepted login
\* is stored; a rejected login and a check that raises leave the stored
\* login as it was; create_order is sent the stored login.
C34_LoginIsLastAccepted ==
  LET Accepted(i) == /\ last.fx[i].reply.status # Raised
                     /\ last.fx[i].reply.value = 1
  IN  /\ \A s \in Sids(USER_STATES) :
           heap[s].step \in {"confirm_login", "paying", "finished"} => heap[s].login # ""
      /\ (last.kind = "message" /\ last.sid # 0)
           => /\ last.post.login # last.pre.login
                   => \E i \in Calls("check_login") :
                        Accepted(i) /\ last.fx[i].arg = last.post.login
              /\ \A i \in Calls("check_login") :
                   IF Accepted(i) THEN last.post.login = last.fx[i].arg
                   ELSE last.post.login = last.pre.login
              /\ (last.pre.step = "waiting_login" /\ last.post.step # "waiting_login")
                   => \E i \in Calls("check_login") : Accepted(i)
              /\ \A i \in Calls("create_order") :
                   /\ last.fx[i].arg.login = last.pre.login
                   /\ last.pre.step = "confirm_login"

\* create_order was sent the login "newell" that the session held
C34_Witness ==
  /\ last.kind = "message"
  /\ Called("create_order")
  /\ last.pre.login = "newell"
  /\ \A i \in Calls("create_order") : last.fx[i].arg.login = "newell"

\* the message of the last event left the fields that the intake set, and
\* every registered session holds the amount that its intake computed
IntakeFieldsKept ==
  /\ (last.kind = "message" /\ last.sid # 0)
       => \A f \in {"amount", "currency", "usd_amount", "order_id", "buyer_id",
                    "chat_id", "created_at", "keys"} : last.post[f] = last.pre[f]
  /\ \A s \in Sids(USER_STATES) :
       /\ heap[s].amount \in {o.amount : o \in feed.orders}
       /\ IF heap[s].currency = "USD" THEN heap[s].usd_amount = heap[s].amount
          ELSE \E r \in feed.rates : heap[s].usd_amount = r.value

\* C35 (as stated): no message changes the amount, the currency, the
\* settlement amount, the order, buyer and chat id, the creation time or the
\* recorded keys of a session, and the quantity sent in create_order is the
\* settlement amount computed at the intake.
C35_QuantityIsSettlementAmount ==
  /\ IntakeFieldsKept
  /\ \A i \in Calls("create_order") : last.fx[i].arg.quantity = last.pre.usd_amount

\* C35 (amended): no message changes those fields, and the quantity sent in
\* create_order is the settlement amount computed at the intake rounded to
\* two decimals.
C35_QuantityIsRoundedSettlementAmount ==
  /\ IntakeFieldsKept
  /\ \A i \in Calls("create_order") :
       last.fx[i].arg.quantity = round2(last.pre.usd_amount)

\* create_order was sent 0.26 for a settlement amount of 0.256
C35_Witness ==
  /\ last.kind = "message"
  /\ last.pre.usd_amount = 256
  /\ last.post.usd_amount = 256
  /\ \E i \in Calls("create_order") : last.fx[i].arg.quantity = 260

\* C36: once a credential is stored, STEAM_TOKEN is never None again; a
\* token fetch that raises, in _refresh_token, the refresher loop or
\* _ensure_token, leaves the stored credential as it was and the lock free
\* when the with block is left; a lock that is held is released, and a
\* thread that waits for it gets it.
C36_TokenKeptAndLockReleased ==
  /\ [][/\ STEAM_TOKEN # 0 => STEAM_TOKEN' # 0
        /\ \A t \in Threads :
             /\ (pc[t] = "fetch" /\ pc'[t] = "release_raise")
                  => STEAM_TOKEN' = STEAM_TOKEN
             /\ (pc[t] = "release_raise" /\ pc'[t] # "release_raise")
                  => (lock = t /\ lock' = NoThread /\ STEAM_TOKEN' = STEAM_TOKEN)]_vars
  /\ \A t \in Threads :
       /\ (lock = t) ~> (lock = NoThread)
       /\ (pc[t] \in {"acquire", "ensure_acquire"}) ~> (lock = t)

\* a fetch has raised in a thread that still holds the lock, the credential
\* obtained before is stored, and the other thread waits for the lock
C36_Witness ==
  \E t \in Threads :
    /\ pc[t] = "release_raise"
    /\ lock = t
    /\ STEAM_TOKEN # 0
    /\ \E u \in Threads \ {t} : pc[u] = "acquire"

====
